---- MODULE Spec2Model ----
(***************************************************************************)
(* Certificate generator (tasks.py, utils.py): the Validator               *)
(* (validate_data) and the Job Orchestrator (generate_certificate, a       *)
(* Celery task with max_retries = 3).                                      *)
(*                                                                         *)
(* Python values are records [t, s, n]: t is the type ("str", "int",       *)
(* "none"), s the characters of a str (a sequence of one-character         *)
(* strings), n the value of an int.  A request is a function whose DOMAIN  *)
(* is the set of keys present in the dict.                                 *)
(***************************************************************************)
EXTENDS Integers, Sequences, FiniteSets, TLC

\* ------------------------------------------------------------------ bounds
NumJobs == 2

\* ------------------------------------------------------- program constants
MaxRetries == 3
MaxUserNameLen == 100
MaxCollegeLen == 200
MaxTopicLen == 150
MinCertificateIdLen == 5

Jobs == 1..NumJobs

\* ----------------------------------------------------------- Python values
PyStr(chars) == [t |-> "str", s |-> chars, n |-> 0]
PyInt(k) == [t |-> "int", s |-> <<>>, n |-> k]
PyNone == [t |-> "none", s |-> <<>>, n |-> 0]

\* bool(v): None, 0 and "" are falsy
Truthy(v) ==
    CASE v.t = "str" -> Len(v.s) > 0
      [] v.t = "int" -> v.n # 0
      [] OTHER -> FALSE

IsStr(v) == v.t = "str"

Range(f) == {f[i] : i \in DOMAIN f}

Rep(c, k) == [i \in 1..k |-> c]

Digits == <<"0", "1", "2", "3", "4", "5", "6", "7", "8", "9">>
LowerCase == <<"a", "b", "c", "d", "e", "f", "g", "h", "i", "j", "k", "l", "m",
               "n", "o", "p", "q", "r", "s", "t", "u", "v", "w", "x", "y", "z">>
UpperCase == <<"A", "B", "C", "D", "E", "F", "G", "H", "I", "J", "K", "L", "M",
               "N", "O", "P", "Q", "R", "S", "T", "U", "V", "W", "X", "Y", "Z">>

IsDigit(c) == c \in Range(Digits)
DigitVal(c) == (CHOOSE i \in DOMAIN Digits : Digits[i] = c) - 1

\* str.upper(), character by character (ASCII)
Upper(c) ==
    IF c \in Range(LowerCase)
    THEN UpperCase[CHOOSE i \in DOMAIN LowerCase : LowerCase[i] = c]
    ELSE c

\* ------------------------------------------------- datetime.fromisoformat
\* The date form YYYY-MM-DD, optionally followed by one separator
\* character and HH:MM, HH:MM:SS or HH:MM:SS.ffffff.  Returns "ok" or the
\* exception raised.
Num2(s, i) == 10 * DigitVal(s[i]) + DigitVal(s[i + 1])
Num4(s, i) == 100 * Num2(s, i) + Num2(s, i + 2)

IsLeap(y) == (y % 4 = 0 /\ y % 100 # 0) \/ y % 400 = 0

DaysInMonth(y, m) ==
    CASE m = 2 -> IF IsLeap(y) THEN 29 ELSE 28
      [] m \in {4, 6, 9, 11} -> 30
      [] OTHER -> 31

DateOk(s) ==
    /\ \A i \in {1, 2, 3, 4, 6, 7, 9, 10} : IsDigit(s[i])
    /\ s[5] = "-" /\ s[8] = "-"
    /\ Num4(s, 1) >= 1
    /\ Num2(s, 6) \in 1..12
    /\ Num2(s, 9) >= 1
    /\ Num2(s, 9) <= DaysInMonth(Num4(s, 1), Num2(s, 6))

TimeOk(s, at) ==
    /\ \A i \in {at, at + 1, at + 3, at + 4} : IsDigit(s[i])
    /\ s[at + 2] = ":"
    /\ Num2(s, at) <= 23
    /\ Num2(s, at + 3) <= 59
    /\ Len(s) = at + 4
       \/ /\ Len(s) \in {at + 7, at + 14}
          /\ s[at + 5] = ":"
          /\ IsDigit(s[at + 6]) /\ IsDigit(s[at + 7])
          /\ Num2(s, at + 6) <= 59
          /\ Len(s) = at + 14 =>
                /\ s[at + 8] = "."
                /\ \A i \in (at + 9)..(at + 14) : IsDigit(s[i])

fromisoformat(v) ==
    IF ~IsStr(v) THEN "TypeError"
    ELSE IF Len(v.s) = 10 /\ DateOk(v.s) THEN "ok"
    ELSE IF Len(v.s) \in {16, 19, 26} /\ DateOk(v.s) /\ TimeOk(v.s, 12) THEN "ok"
    ELSE "ValueError"

\* ------------------------------------------------ utils.validate_certificate_id
AllowedChars == Range(UpperCase) \cup Range(Digits) \cup {"-", "_"}

\* str.upper() of a whole string: a character may become several (the
\* sharp s, U+00DF, written "U+00DF" here, becomes "SS")
RECURSIVE StrUpper(_)
StrUpper(s) ==
    IF s = << >> THEN << >>
    ELSE (IF Head(s) = "U+00DF" THEN <<"S", "S">> ELSE <<Upper(Head(s))>>) \o StrUpper(Tail(s))

validate_certificate_id(certificate_id) ==
    IF Len(certificate_id) = 0 \/ Len(certificate_id) < MinCertificateIdLen
    THEN FALSE
    ELSE \A c \in Range(StrUpper(certificate_id)) : c \in AllowedChars

\* ------------------------------------------------------------- exceptions
NoCause == [text |-> "", names |-> <<>>]
NoErr == [type |-> "none", text |-> "", names |-> <<>>, count |-> 0,
          cause |-> NoCause, stage |-> "none"]

\* An exception: its class, the fixed text of its message, the field or asset
\* names the message lists, and the pipeline stage that raised it.
Exc(type, text, names, stage) ==
    [type |-> type, text |-> text, names |-> names, count |-> 0,
     cause |-> NoCause, stage |-> stage]

\* str(e)
StrOf(e) == [text |-> e.text, names |-> e.names]

\* ------------------------------------------------------ tasks.validate_data
REQUIRED_KEYS == <<"user_name", "college", "certificate_id", "issued_at", "topic">>

IsMissing(data, key) == key \notin DOMAIN data \/ ~Truthy(data[key])

\* Reports only the first missing field
MissingKeysFirstOnly(data) ==
    LET all == SelectSeq(REQUIRED_KEYS, LAMBDA key : IsMissing(data, key))
    IN IF Len(all) > 1 THEN <<all[1]>> ELSE all

MissingKeys(data) == SelectSeq(REQUIRED_KEYS, LAMBDA key : IsMissing(data, key))

\* The exception validate_data raises on data, NoErr when it raises none
ValidationError(data) ==
    LET missing == MissingKeys(data) IN
    IF Len(missing) > 0
    THEN Exc("ValueError", "Missing or empty required fields", missing, "validate")
    ELSE IF ~IsStr(data["user_name"]) \/ Len(data["user_name"].s) > MaxUserNameLen
    THEN Exc("ValueError", "user_name must be a string with max 100 characters",
             <<"user_name">>, "validate")
    ELSE IF ~IsStr(data["college"]) \/ Len(data["college"].s) > MaxCollegeLen
    THEN Exc("ValueError", "college must be a string with max 200 characters",
             <<"college">>, "validate")
    ELSE IF ~IsStr(data["topic"]) \/ Len(data["topic"].s) > MaxTopicLen
    THEN Exc("ValueError", "topic must be a string with max 150 characters",
             <<"topic">>, "validate")
    ELSE IF fromisoformat(data["issued_at"]) = "ValueError"
    THEN Exc("ValueError", "issued_at must be in ISO format", <<"issued_at">>, "validate")
    ELSE IF fromisoformat(data["issued_at"]) = "TypeError"
    THEN Exc("TypeError", "fromisoformat: argument must be str", << >>, "validate")
    ELSE NoErr

NoData == << >>

\* A validate_data that normalises the identifier in place before returning
validate_dataNormalising(data) ==
    LET e == ValidationError(data)
        norm == IF e = NoErr /\ IsStr(data["certificate_id"])
                THEN [data EXCEPT !["certificate_id"] =
                        PyStr([i \in DOMAIN @.s |-> Upper(@.s[i])])]
                ELSE data
    IN [exc |-> e, ret |-> IF e = NoErr THEN norm ELSE NoData, arg |-> norm]

\* Result of a call: the exception raised (NoErr when it returns), the value
\* returned (the dict itself), and the argument dict as the call leaves it.
validate_data(data) ==
    LET e == ValidationError(data)
    IN [exc |-> e, ret |-> IF e = NoErr THEN data ELSE NoData, arg |-> data]


\* ------------------------------------------------------------------- paths
\* A path is [dir, name]; name is the characters of the file name followed
\* by its fixed suffix.  A directory is the path with the empty name.
BASE_TEMPLATES == "BASE_DIR/templates"
BASE_FONTS == "BASE_DIR/fonts"
CERTIFICATES_DIR == "BASE_DIR/certificates"
TEMP_DIR == "BASE_DIR/temp"
QR_OUTPUT_DIR == "temp"

File(dir, name) == [dir |-> dir, name |-> name]
Dir(dir) == File(dir, << >>)
TEMPLATE_PATH == File(BASE_TEMPLATES, <<"certificate_template.jpg">>)
FONT_PATH == File(BASE_FONTS, <<"Open Sans Bold.ttf">>)
NoPath == File("", << >>)

\* str(int) for a non-negative int
RECURSIVE IntChars(_)
IntChars(k) == IF k < 10 THEN <<Digits[k + 1]>>
               ELSE IntChars(k \div 10) \o <<Digits[(k % 10) + 1]>>

\* f"{value}"
Format(v) ==
    CASE v.t = "str" -> v.s
      [] v.t = "int" -> IntChars(v.n)
      [] OTHER -> <<"None">>

\* utils.generate_qr_code: qr_path
QrPath(certificate_id) == File(QR_OUTPUT_DIR, Format(certificate_id) \o <<"_qr.png">>)
\* One intermediate file name for every job
TempImgPathShared(certificate_id) == File(TEMP_DIR, <<"certificate", "_temp.jpg">>)

\* tasks.generate_certificate: temp_img_path, pdf_output_path
TempImgPath(certificate_id) == File(TEMP_DIR, Format(certificate_id) \o <<"_temp.jpg">>)
\* The PDF is left in the scratch store
PdfOutputPathInTemp(certificate_id) == File(TEMP_DIR, Format(certificate_id) \o <<".pdf">>)

PdfOutputPath(certificate_id) == File(CERTIFICATES_DIR, Format(certificate_id) \o <<".pdf">>)

\* ------------------------------------------------------------------- state
VARIABLES
    request,    \* request[j]: the task argument as submitted (the message body)
    data,       \* data[j]: the local variable data of the running attempt
    pc,         \* pc[j]: position of job j
    retries,    \* retries[j]: self.request.retries
    attempts,   \* attempts[j]: number of attempts started for job j
    err,        \* err[j]: the exception last caught by the task's handler
    history,    \* history[j]: the stage of each failed attempt, in order
    result,     \* result[j]: what the task returned or finally raised
    calls,      \* calls[j]: external processes run by the current attempt
    fs,         \* the paths that exist
    written,    \* written[j]: the paths job j has written so far
    mtime,      \* mtime[p]: st_mtime (in days) of the stored file p
    sweep,      \* the running cleanup_old_certificates call
    health,     \* health[h]: the running health_check call h
    pure,       \* a call of a pure helper: its argument and its result
    clock       \* the wall clock the producers read, in ticks

vars == <<request, data, pc, retries, attempts, err, history, result, calls, fs,
          written, mtime, sweep, health, pure, clock>>

\* What a step of generate_certificate never touches
otherVars == <<mtime, sweep, health, pure, clock>>

NoResult == [kind |-> "none", path |-> NoPath, exc |-> NoErr]
Returned(path) == [kind |-> "path", path |-> path, exc |-> NoErr]
Raised(e) == [kind |-> "error", path |-> NoPath, exc |-> e]

\* The texts a command draws (none for a conversion)
NoTexts == [name |-> << >>, college |-> << >>, topic |-> << >>, cid |-> << >>,
            date |-> << >>]

Call(prog, inputs, out) ==
    [prog |-> prog, inputs |-> inputs, out |-> out, texts |-> NoTexts]

\* A call together with how subprocess.run ended
Ran(call, outcome) ==
    [prog |-> call.prog, inputs |-> call.inputs, out |-> call.out,
     texts |-> call.texts, outcome |-> outcome]

\* Outcomes of subprocess.run(cmd, check=True)
RunOutcomes == {"ok", "CalledProcessError", "FileNotFoundError"}

\* The state of the spec's job state machine that a position belongs to
State(j) ==
    CASE pc[j] \in {"PREPARING", "QR", "RENDERING"} -> "RENDERING"
      [] pc[j] \in {"CONVERTING", "CONVERTING_FALLBACK", "CLEANUP"} -> "CONVERTING"
      [] OTHER -> pc[j]

Terminal == {"DONE", "FAILED"}


\* ------------------------------------------------ tasks.text_escape
\* str.replace(old, new) for a one-character old: every occurrence, left to
\* right, in the text as it is when the call is made
RECURSIVE Replace(_, _, _)
Replace(s, old, new) ==
    IF s = << >> THEN << >>
    ELSE (IF Head(s) = old THEN new ELSE <<Head(s)>>) \o Replace(Tail(s), old, new)

\* One link of the chain: .replace(old, "\\" + old) applied to the value the
\* chain has produced so far (held as a one-element set, so that each link
\* is computed once)
ReplaceIn(S, old) == {Replace(s, old, <<"\\", old>>) : s \in S}

\* The same chain with the backslash replaced last
text_escapeBackslashLast(text) ==
    CHOOSE out \in
        ReplaceIn(ReplaceIn(ReplaceIn(ReplaceIn(ReplaceIn(ReplaceIn(ReplaceIn(ReplaceIn(
            {text}, ":"), "'"), "\""), "["), "]"), ","), ";"), "\\") : TRUE

\* str(text).replace("\\", "\\\\").replace(":", "\\:") ... .replace(";", r"\;")
text_escape(text) ==
    CHOOSE out \in
        ReplaceIn(ReplaceIn(ReplaceIn(ReplaceIn(ReplaceIn(ReplaceIn(ReplaceIn(ReplaceIn(
            {text}, "\\"), ":"), "'"), "\""), "["), "]"), ","), ";") : TRUE

\* ------------------------------------------------ utils.format_datetime
MonthAbbr ==
    <<<<"J", "a", "n">>, <<"F", "e", "b">>, <<"M", "a", "r">>, <<"A", "p", "r">>,
      <<"M", "a", "y">>, <<"J", "u", "n">>, <<"J", "u", "l">>, <<"A", "u", "g">>,
      <<"S", "e", "p">>, <<"O", "c", "t">>, <<"N", "o", "v">>, <<"D", "e", "c">>>>

\* dt.strftime("%d-%b-%Y %H:%M") of the datetime parsed from s; %Y is the
\* year without padding (glibc); a date without a time is midnight
strftime(s) ==
    <<s[9], s[10], "-">> \o MonthAbbr[Num2(s, 6)] \o <<"-">> \o IntChars(Num4(s, 1))
        \o <<" ">>
        \o (IF Len(s) >= 16 THEN <<s[12], s[13], ":", s[15], s[16]>>
            ELSE <<"0", "0", ":", "0", "0">>)

FallbackDate == <<"I", "n", "v", "a", "l", "i", "d", " ", "D", "a", "t", "e">>

\* Without the try/except: the ValueError of fromisoformat leaves the function
format_datetimeUnguarded(iso_str) ==
    LET r == fromisoformat(iso_str) IN
    CASE r = "ok" -> [exc |-> NoErr, out |-> PyStr(strftime(iso_str.s))]
      [] OTHER -> [exc |-> Exc(r, "Invalid isoformat string", << >>, "format"),
                   out |-> PyNone]

\* The formatted string, the fallback on ValueError; a TypeError (the
\* argument is not a str) is not caught
format_datetime(iso_str) ==
    LET r == fromisoformat(iso_str) IN
    CASE r = "ok" -> [exc |-> NoErr, out |-> PyStr(strftime(iso_str.s))]
      [] r = "ValueError" -> [exc |-> NoErr, out |-> PyStr(FallbackDate)]
      [] OTHER -> [exc |-> Exc("TypeError", "fromisoformat: argument must be str",
                               << >>, "format"),
                   out |-> PyNone]

\* ------------------------------------------- generate_certificate: handler
\* except Exception as e (tasks.py 247-255): self.retry while
\* self.request.retries < self.max_retries, else the terminal error.
\* self.retry re-sends the task message with retries + 1 (Celery).
TerminalError(e) ==
    [type |-> "CertificateGenerationError",
     text |-> "Failed to generate certificate after {max_retries} attempts",
     names |-> << >>, count |-> MaxRetries, cause |-> StrOf(e), stage |-> e.stage]

\* Off by one: retries once more than max_retries
ShouldRetryInclusive(j) == retries[j] <= MaxRetries

ShouldRetry(j) == retries[j] < MaxRetries

HandleException(j, e) ==
    /\ err' = [err EXCEPT ![j] = e]
    /\ history' = [history EXCEPT ![j] = Append(@, e.stage)]
    /\ IF ShouldRetry(j)
       THEN /\ pc' = [pc EXCEPT ![j] = "RETRYING"]
            /\ retries' = [retries EXCEPT ![j] = @ + 1]
            /\ UNCHANGED result
       ELSE /\ pc' = [pc EXCEPT ![j] = "FAILED"]
            /\ result' = [result EXCEPT ![j] = Raised(TerminalError(e))]
            /\ UNCHANGED retries

\* --------------------------------------------- generate_certificate: steps
\* The worker takes the message of a job and starts an attempt.
StartAttempt(j) ==
    /\ pc' = [pc EXCEPT ![j] = "VALIDATING"]
    /\ attempts' = [attempts EXCEPT ![j] = @ + 1]
    /\ data' = [data EXCEPT ![j] = request[j]]
    /\ calls' = [calls EXCEPT ![j] = << >>]
    /\ UNCHANGED <<request, retries, err, history, result, fs>>
    /\ UNCHANGED <<written, otherVars>>

Dequeue(j) ==
    /\ pc[j] = "PENDING"
    /\ StartAttempt(j)

\* The last retry message is never delivered
RetryDueBelowMax(j) ==
    /\ pc[j] = "RETRYING"
    /\ retries[j] < MaxRetries
    /\ StartAttempt(j)

\* The retry message becomes due after the countdown and is taken again.
RetryDue(j) ==
    /\ pc[j] = "RETRYING"
    /\ StartAttempt(j)

\* directory.mkdir(exist_ok=True) for the two stores
ensure_directories(files) == files \cup {Dir(CERTIFICATES_DIR), Dir(TEMP_DIR)}

\* The directories are made before the data is validated
ValidateAfterDirectories(j) ==
    /\ pc[j] = "VALIDATING"
    /\ fs' = ensure_directories(fs)
    /\ LET r == validate_data(data[j]) IN
       IF r.exc # NoErr
       THEN /\ HandleException(j, r.exc)
            /\ data' = [data EXCEPT ![j] = r.arg]
            /\ UNCHANGED <<request, attempts, calls>>
       ELSE /\ pc' = [pc EXCEPT ![j] = "PREPARING"]
            /\ data' = [data EXCEPT ![j] = r.ret]
            /\ UNCHANGED <<request, retries, attempts, err, history, result, calls>>
    /\ UNCHANGED <<written, otherVars>>

\* data = validate_data(data)
Validate(j) ==
    /\ pc[j] = "VALIDATING"
    /\ LET r == validate_data(data[j]) IN
       IF r.exc # NoErr
       THEN /\ HandleException(j, r.exc)
            /\ data' = [data EXCEPT ![j] = r.arg]
            /\ UNCHANGED <<request, attempts, calls, fs>>
       ELSE /\ pc' = [pc EXCEPT ![j] = "PREPARING"]
            /\ data' = [data EXCEPT ![j] = r.ret]
            /\ UNCHANGED <<request, retries, attempts, err, history, result, calls, fs>>
    /\ UNCHANGED <<written, otherVars>>

\* ensure_directories(); the template check; the font check only warns
Prepare(j) ==
    /\ pc[j] = "PREPARING"
    /\ fs' = ensure_directories(fs)
    /\ IF TEMPLATE_PATH \notin fs
       THEN /\ HandleException(j, Exc("FileNotFoundError", "Template not found",
                                      <<"certificate_template.jpg">>, "prepare"))
            /\ UNCHANGED <<request, data, attempts, calls>>
       ELSE /\ pc' = [pc EXCEPT ![j] = "QR"]
            /\ UNCHANGED <<request, data, retries, attempts, err, history, result, calls>>
    /\ UNCHANGED <<written, otherVars>>

\* qr_path = generate_qr_code(data['certificate_id'])
generate_qr_code(files, certificate_id) ==
    files \cup {Dir(QR_OUTPUT_DIR), QrPath(certificate_id)}

\* esc = {...}: the five escaped texts of the filter chain
Texts(d) ==
    [name |-> text_escape(Format(d["user_name"])),
     college |-> text_escape(Format(d["college"])),
     topic |-> text_escape(Format(d["topic"])),
     cid |-> text_escape(Format(d["certificate_id"])),
     date |-> text_escape(format_datetime(d["issued_at"]).out.s)]

\* The QR code, then the escaped texts; an exception of format_datetime
\* reaches the task's handler
GenerateQr(j) ==
    /\ pc[j] = "QR"
    /\ fs' = generate_qr_code(fs, data[j]["certificate_id"])
    /\ written' = [written EXCEPT ![j] = @ \cup {QrPath(data[j]["certificate_id"])}]
    /\ IF format_datetime(data[j]["issued_at"]).exc # NoErr
       THEN /\ HandleException(j, format_datetime(data[j]["issued_at"]).exc)
            /\ UNCHANGED <<request, data, attempts, calls>>
       ELSE /\ pc' = [pc EXCEPT ![j] = "RENDERING"]
            /\ UNCHANGED <<request, data, retries, attempts, err, history, result, calls>>
    /\ UNCHANGED otherVars

\* subprocess.run(ffmpeg_cmd, check=True, capture_output=True, text=True):
\* -i TEMPLATE_PATH, the drawtext filters with fontfile and the texts, and
\* temp_img_path
RenderCall(j) ==
    [Call("ffmpeg", {TEMPLATE_PATH, FONT_PATH}, TempImgPath(data[j]["certificate_id"]))
        EXCEPT !.texts = Texts(data[j])]

RunRenderer(j, outcome) ==
    /\ pc[j] = "RENDERING"
    /\ calls' = [calls EXCEPT ![j] = Append(@, Ran(RenderCall(j), outcome))]
    /\ written' = IF outcome = "ok"
                  THEN [written EXCEPT ![j] = @ \cup {TempImgPath(data[j]["certificate_id"])}]
                  ELSE written
    /\ UNCHANGED otherVars
    /\ CASE outcome = "ok" ->
              /\ fs' = fs \cup {TempImgPath(data[j]["certificate_id"])}
              /\ pc' = [pc EXCEPT ![j] = "CONVERTING"]
              /\ UNCHANGED <<retries, err, history, result>>
         [] outcome = "CalledProcessError" ->
              /\ HandleException(j, Exc("CertificateGenerationError",
                                        "Image generation failed: {e.stderr}",
                                        << >>, "render"))
              /\ UNCHANGED fs
         [] OTHER ->
              /\ HandleException(j, Exc("FileNotFoundError",
                                        "No such file or directory",
                                        <<"ffmpeg">>, "render"))
              /\ UNCHANGED fs
    /\ UNCHANGED <<request, data, attempts>>

\* Method 1: subprocess.run(['convert', ...], check=True)
ConvertCall(j, prog) ==
    Call(prog, {TempImgPath(data[j]["certificate_id"])},
         PdfOutputPath(data[j]["certificate_id"]))

\* Method 2 is run whether or not Method 1 succeeded
ConvertImageMagickAlwaysFallback(j, outcome) ==
    /\ pc[j] = "CONVERTING"
    /\ calls' = [calls EXCEPT ![j] = Append(@, Ran(ConvertCall(j, "convert"), outcome))]
    /\ written' = IF outcome = "ok"
                  THEN [written EXCEPT ![j] = @ \cup {PdfOutputPath(data[j]["certificate_id"])}]
                  ELSE written
    /\ fs' = IF outcome = "ok"
             THEN fs \cup {PdfOutputPath(data[j]["certificate_id"])}
             ELSE fs
    /\ pc' = [pc EXCEPT ![j] = "CONVERTING_FALLBACK"]
    /\ UNCHANGED <<request, data, retries, attempts, err, history, result>>
    /\ UNCHANGED otherVars

\* The conversion strategies in the order the code tries them
ConverterOrder == <<"convert", "ffmpeg">>

ConvertImageMagick(j, outcome) ==
    /\ pc[j] = "CONVERTING"
    /\ calls' = [calls EXCEPT ![j] = Append(@, Ran(ConvertCall(j, "convert"), outcome))]
    /\ written' = IF outcome = "ok"
                  THEN [written EXCEPT ![j] = @ \cup {PdfOutputPath(data[j]["certificate_id"])}]
                  ELSE written
    /\ UNCHANGED otherVars
    /\ IF outcome = "ok"
       THEN /\ fs' = fs \cup {PdfOutputPath(data[j]["certificate_id"])}
            /\ pc' = [pc EXCEPT ![j] = "CLEANUP"]
       ELSE /\ UNCHANGED fs
            /\ pc' = [pc EXCEPT ![j] = "CONVERTING_FALLBACK"]
    /\ UNCHANGED <<request, data, retries, attempts, err, history, result>>

\* Method 2: subprocess.run(['ffmpeg', ..., '-f', 'pdf', ...], check=True)
ConvertFfmpeg(j, outcome) ==
    /\ pc[j] = "CONVERTING_FALLBACK"
    /\ calls' = [calls EXCEPT ![j] = Append(@, Ran(ConvertCall(j, "ffmpeg"), outcome))]
    /\ written' = IF outcome = "ok"
                  THEN [written EXCEPT ![j] = @ \cup {PdfOutputPath(data[j]["certificate_id"])}]
                  ELSE written
    /\ UNCHANGED otherVars
    /\ CASE outcome = "ok" ->
              /\ fs' = fs \cup {PdfOutputPath(data[j]["certificate_id"])}
              /\ pc' = [pc EXCEPT ![j] = "CLEANUP"]
              /\ UNCHANGED <<retries, err, history, result>>
         [] outcome = "CalledProcessError" ->
              /\ HandleException(j, Exc("CertificateGenerationError",
                                        "All PDF conversion methods failed",
                                        << >>, "convert"))
              /\ UNCHANGED fs
         [] OTHER ->
              /\ HandleException(j, Exc("FileNotFoundError",
                                        "No such file or directory",
                                        <<"ffmpeg">>, "convert"))
              /\ UNCHANGED fs
    /\ UNCHANGED <<request, data, attempts>>

\* Cleanup of the two temporary files, the size check (logging only) and
\* return str(pdf_output_path)
CleanupFilesImageOnly(files, certificate_id) ==
    files \ {TempImgPath(certificate_id)}

\* The intermediate image is kept
CleanupFilesQrOnly(files, certificate_id) ==
    files \ {QrPath(certificate_id)}

CleanupFiles(files, certificate_id) ==
    files \ {TempImgPath(certificate_id), QrPath(certificate_id)}

Finish(j) ==
    /\ pc[j] = "CLEANUP"
    /\ fs' = CleanupFiles(fs, data[j]["certificate_id"])
    /\ result' = [result EXCEPT ![j] = Returned(PdfOutputPath(data[j]["certificate_id"]))]
    /\ pc' = [pc EXCEPT ![j] = "DONE"]
    /\ UNCHANGED <<request, data, retries, attempts, err, history, calls>>
    /\ UNCHANGED <<written, otherVars>>


\* ------------------------------------------------ the other entry points
NumProbes == 2
Probes == 1..NumProbes

\* No cleanup_old_certificates, health_check or helper call is running
NoSweep == [pc |-> "IDLE"]
NoProbe == [pc |-> "IDLE"]
NoCall == [pc |-> "IDLE"]

JobStep(j) ==
    \/ Dequeue(j)
    \/ RetryDue(j)
    \/ Validate(j)
    \/ Prepare(j)
    \/ GenerateQr(j)
    \/ \E outcome \in RunOutcomes : RunRenderer(j, outcome)
    \/ \E outcome \in RunOutcomes : ConvertImageMagick(j, outcome)
    \/ \E outcome \in RunOutcomes : ConvertFfmpeg(j, outcome)
    \/ Finish(j)

Next == \E j \in Jobs : JobStep(j)

\* ---------------------------------------------------------------- requests
Absent == [t |-> "absent", s |-> << >>, n |-> 0]

\* The dict with the given values, without the keys marked Absent
Request(user_name, college, certificate_id, issued_at, topic) ==
    LET all == [k \in Range(REQUIRED_KEYS) |->
                  CASE k = "user_name" -> user_name
                    [] k = "college" -> college
                    [] k = "certificate_id" -> certificate_id
                    [] k = "issued_at" -> issued_at
                    [] OTHER -> topic]
    IN [k \in {x \in Range(REQUIRED_KEYS) : all[x] # Absent} |-> all[k]]

TestUser == PyStr(<<"T", "e", "s", "t", " ", "U", "s", "e", "r">>)
TestU == PyStr(<<"T", "e", "s", "t", " ", "U">>)
Testing == PyStr(<<"T", "e", "s", "t", "i", "n", "g">>)
Empty == PyStr(<< >>)
IdCert1 == PyStr(<<"C", "E", "R", "T", "-", "1">>)
IdTest0001 == PyStr(<<"T", "E", "S", "T", "-", "0", "0", "0", "1">>)
IdLower == PyStr(<<"c", "e", "r", "t", "_", "2">>)
IdShort == PyStr(<<"A", "B">>)
IdSpace == PyStr(<<"C", "E", "R", "T", " ", "1", "!">>)
IsoDate == PyStr(<<"2", "0", "2", "4", "-", "0", "2", "-", "2", "9">>)
IsoDateTime == PyStr(<<"2", "0", "2", "5", "-", "0", "6", "-", "1", "0", "T",
                       "1", "4", ":", "3", "0", ":", "0", "0">>)
BadDay == PyStr(<<"2", "0", "2", "3", "-", "0", "2", "-", "2", "9">>)
BadMonth == PyStr(<<"2", "0", "2", "4", "-", "1", "3", "-", "0", "1">>)
InvalidDate == PyStr(<<"i", "n", "v", "a", "l", "i", "d", "-", "d", "a", "t", "e">>)

\* Requests submitted to the orchestrator
JobRequests ==
    { Request(TestUser, TestU, IdTest0001, IsoDateTime, Testing),
      Request(TestUser, TestU, IdShort, IsoDate, Testing),
      Request(TestUser, Empty, IdCert1, IsoDate, Absent),
      Request(TestUser, TestU, IdCert1, InvalidDate, Testing),
      Request(TestUser, TestU, IdCert1, PyInt(20240115), Testing) }

\* Requests given to the Validator
UserNames == {Absent, PyNone, Empty, PyInt(123), TestUser,
              PyStr(Rep("x", MaxUserNameLen)), PyStr(Rep("x", MaxUserNameLen + 1))}
Colleges == {Absent, Empty, PyInt(7), TestU,
             PyStr(Rep("y", MaxCollegeLen)), PyStr(Rep("y", MaxCollegeLen + 1))}
Topics == {Absent, Empty, PyInt(0), Testing,
           PyStr(Rep("z", MaxTopicLen)), PyStr(Rep("z", MaxTopicLen + 1))}
CertificateIds == {Absent, Empty, PyInt(12345), IdCert1, IdLower, IdShort, IdSpace}
IssuedAts == {Absent, PyNone, Empty, PyInt(20240115), IsoDate, IsoDateTime,
              BadDay, BadMonth, InvalidDate}

ValidatorRequests ==
    { Request(u, c, i, d, t) : u \in UserNames, c \in Colleges,
                               i \in CertificateIds, d \in IssuedAts, t \in Topics }

\* ------------------------------------------------------------------- specs
\* One job has been submitted (generate_certificate.delay); the template and
\* the font may or may not be installed.
Init ==
    /\ \E req \in JobRequests :
          request = [j \in Jobs |-> IF j = 1 THEN req ELSE NoData]
    /\ pc = [j \in Jobs |-> IF j = 1 THEN "PENDING" ELSE "IDLE"]
    /\ data = [j \in Jobs |-> NoData]
    /\ retries = [j \in Jobs |-> 0]
    /\ attempts = [j \in Jobs |-> 0]
    /\ err = [j \in Jobs |-> NoErr]
    /\ history = [j \in Jobs |-> << >>]
    /\ result = [j \in Jobs |-> NoResult]
    /\ calls = [j \in Jobs |-> << >>]
    /\ fs \in SUBSET {TEMPLATE_PATH, FONT_PATH}
    /\ written = [j \in Jobs |-> {}]
    /\ clock = 0
    /\ mtime = << >>
    /\ sweep = NoSweep
    /\ health = [h \in Probes |-> NoProbe]
    /\ pure = NoCall

Spec == Init /\ [][Next]_vars

\* The worker keeps taking messages and a started attempt runs on.
FairSpec == Spec /\ \A j \in Jobs : WF_vars(JobStep(j))

\* Two jobs are in flight at once on different workers (batch_generate queues
\* several with .delay); the second job's certificate ID is other.
RaceJobs == {1, 2}
RaceRequest(certificate_id) == Request(TestUser, TestU, certificate_id, IsoDate, Testing)

RaceInit(other) ==
    /\ request = [j \in Jobs |-> CASE j = 1 -> RaceRequest(IdCert1)
                                  [] j = 2 -> RaceRequest(other)
                                  [] OTHER -> NoData]
    /\ pc = [j \in Jobs |-> IF j \in RaceJobs THEN "PENDING" ELSE "IDLE"]
    /\ data = [j \in Jobs |-> NoData]
    /\ retries = [j \in Jobs |-> 0]
    /\ attempts = [j \in Jobs |-> 0]
    /\ err = [j \in Jobs |-> NoErr]
    /\ history = [j \in Jobs |-> << >>]
    /\ result = [j \in Jobs |-> NoResult]
    /\ calls = [j \in Jobs |-> << >>]
    /\ fs = {TEMPLATE_PATH, FONT_PATH}
    /\ written = [j \in Jobs |-> {}]
    /\ clock = 0
    /\ mtime = << >>
    /\ sweep = NoSweep
    /\ health = [h \in Probes |-> NoProbe]
    /\ pure = NoCall

\* The two jobs carry different certificate IDs
DistinctIdSpec == RaceInit(IdTest0001) /\ [][Next]_vars

\* The same certificate ID is submitted twice
SameIdSpec == RaceInit(IdCert1) /\ [][Next]_vars

\* --------------------------------------- tasks.cleanup_old_certificates
\* Times are in days.  Now is the clock reading of the sweep.
Now == 100
MaxStored == 2
DefaultDaysOld == 30
FileAges == {10, 30, 40}
DaysOldArgs == {10, DefaultDaysOld}
StoredIds == <<IdCert1, IdTest0001, IdLower>>

IsPdf(p) == p.dir = CERTIFICATES_DIR /\ Len(p.name) > 0 /\ p.name[Len(p.name)] = ".pdf"
IsTempFile(p) == p.dir = TEMP_DIR /\ Len(p.name) > 0

\* CERTIFICATES_DIR.glob("*.pdf") and TEMP_DIR.glob("*")
GlobPdf(files) == {p \in files : IsPdf(p)}
GlobTemp(files) == {p \in files : IsTempFile(p)}

\* Deletes the files exactly as old as the cutoff too
ExpiredInclusive(file_time, cutoff_date) == file_time <= cutoff_date

\* file_time < cutoff_date
Expired(file_time, cutoff_date) == file_time < cutoff_date

SweepCall(days_old) ==
    [pc |-> "CALLED", days_old |-> days_old, cutoff_date |-> 0, todo |-> {},
     listed |-> {}, cleaned_count |-> 0, deleted |-> {}, exc |-> NoErr,
     files_removed |-> 0]

\* cutoff_date = datetime.now() - timedelta(days=days_old); the first glob
SweepStart ==
    /\ sweep.pc = "CALLED"
    /\ sweep' = [sweep EXCEPT !.pc = "CERTS",
                              !.cutoff_date = Now - sweep.days_old,
                              !.todo = GlobPdf(fs),
                              !.listed = GlobPdf(fs)]
    /\ UNCHANGED <<request, data, pc, retries, attempts, err, history, result, calls,
                   fs, written, mtime, health, pure, clock>>

\* One iteration of a loop: stat(), the age test, unlink().  stat() raises
\* when the listed file is gone; nothing in the function catches it.
SweepFile(p, counted) ==
    /\ p \in sweep.todo
    /\ IF p \notin fs
       THEN /\ sweep' = [sweep EXCEPT !.pc = "RAISED",
                                      !.exc = Exc("FileNotFoundError",
                                                  "No such file or directory",
                                                  << >>, "sweep")]
            /\ UNCHANGED fs
       ELSE IF Expired(mtime[p], sweep.cutoff_date)
       THEN /\ fs' = fs \ {p}
            /\ sweep' = [sweep EXCEPT !.todo = @ \ {p},
                                      !.deleted = @ \cup {p},
                                      !.cleaned_count = IF counted THEN @ + 1 ELSE @]
       ELSE /\ sweep' = [sweep EXCEPT !.todo = @ \ {p}]
            /\ UNCHANGED fs
    /\ UNCHANGED <<request, data, pc, retries, attempts, err, history, result, calls,
                   written, mtime, health, pure, clock>>

SweepCertFile(p) ==
    /\ sweep.pc = "CERTS"
    /\ SweepFile(p, TRUE)

\* The first loop is over: the second glob
SweepListTemp ==
    /\ sweep.pc = "CERTS"
    /\ sweep.todo = {}
    /\ sweep' = [sweep EXCEPT !.pc = "TEMPS", !.todo = GlobTemp(fs)]
    /\ UNCHANGED <<request, data, pc, retries, attempts, err, history, result, calls,
                   fs, written, mtime, health, pure, clock>>

SweepTempFile(p) ==
    /\ sweep.pc = "TEMPS"
    /\ SweepFile(p, FALSE)

\* return {'files_removed': cleaned_count, ...}
SweepReturn ==
    /\ sweep.pc = "TEMPS"
    /\ sweep.todo = {}
    /\ sweep' = [sweep EXCEPT !.pc = "RETURNED", !.files_removed = sweep.cleaned_count]
    /\ UNCHANGED <<request, data, pc, retries, attempts, err, history, result, calls,
                   fs, written, mtime, health, pure, clock>>

\* Another worker removes a file while the sweep runs: a finishing job
\* unlinks its intermediate image, a second sweep unlinks an expired file.
ConcurrentUnlink(p) ==
    /\ sweep.pc \in {"CERTS", "TEMPS"}
    /\ p \in fs
    /\ \/ IsTempFile(p)
       \/ IsPdf(p) /\ Expired(mtime[p], sweep.cutoff_date)
    /\ fs' = fs \ {p}
    /\ UNCHANGED <<request, data, pc, retries, attempts, err, history, result, calls,
                   written, mtime, sweep, health, pure, clock>>

StoredCerts == {PdfOutputPath(StoredIds[i]) : i \in 1..MaxStored}
StoredTemps == {TempImgPath(IdCert1)}

SweepInit ==
    /\ \E temps \in SUBSET StoredTemps :
       \E ages \in [StoredCerts \cup temps -> FileAges] :
          /\ fs = {Dir(CERTIFICATES_DIR), Dir(TEMP_DIR)} \cup StoredCerts \cup temps
          /\ mtime = [p \in StoredCerts \cup temps |-> Now - ages[p]]
    /\ \E days_old \in DaysOldArgs : sweep = SweepCall(days_old)
    /\ request = [j \in Jobs |-> NoData]
    /\ pc = [j \in Jobs |-> "IDLE"]
    /\ data = [j \in Jobs |-> NoData]
    /\ retries = [j \in Jobs |-> 0]
    /\ attempts = [j \in Jobs |-> 0]
    /\ err = [j \in Jobs |-> NoErr]
    /\ history = [j \in Jobs |-> << >>]
    /\ result = [j \in Jobs |-> NoResult]
    /\ calls = [j \in Jobs |-> << >>]
    /\ written = [j \in Jobs |-> {}]
    /\ clock = 0
    /\ health = [h \in Probes |-> NoProbe]
    /\ pure = NoCall

SweepNext ==
    \/ SweepStart
    \/ \E p \in StoredCerts : SweepCertFile(p)
    \/ SweepListTemp
    \/ \E p \in StoredTemps : SweepTempFile(p)
    \/ SweepReturn
    \/ \E p \in StoredCerts \cup StoredTemps : ConcurrentUnlink(p)

SweepSpec == SweepInit /\ [][SweepNext]_vars

\* ------------------------------------------------------ tasks.health_check
HEALTH_TEST_FILE == File(TEMP_DIR, <<"health_check.tmp">>)

\* subprocess.run of a probe command can also fail with an OSError other
\* than FileNotFoundError (the executable is found but may not be executed)
ProbeOutcomes == RunOutcomes \cup {"PermissionError"}
\* test_file.touch() in an existing directory
TouchOutcomes == {"ok", "PermissionError"}

ProbeCall ==
    [pc |-> "CALLED",
     status |-> [template_exists |-> FALSE, font_exists |-> FALSE,
                 directories_writable |-> FALSE, ffmpeg_available |-> FALSE,
                 imagemagick_available |-> FALSE],
     seen |-> [touch |-> "none", unlink |-> "none", ffmpeg |-> "none", convert |-> "none"],
     exc |-> NoErr]

\* status = {...}
ProbeStart(h) ==
    /\ health[h].pc = "CALLED"
    /\ health' = [health EXCEPT ![h].pc = "TOUCH",
                                ![h].status = [template_exists |-> TEMPLATE_PATH \in fs,
                                               font_exists |-> FONT_PATH \in fs,
                                               directories_writable |-> TRUE,
                                               ffmpeg_available |-> FALSE,
                                               imagemagick_available |-> FALSE]]
    /\ UNCHANGED <<request, data, pc, retries, attempts, err, history, result, calls,
                   fs, written, mtime, sweep, pure, clock>>

\* test_file.touch(), inside try ... except Exception
ProbeTouch(h, outcome) ==
    /\ health[h].pc = "TOUCH"
    /\ LET o == IF Dir(TEMP_DIR) \notin fs THEN "FileNotFoundError" ELSE outcome IN
       IF o = "ok"
       THEN /\ fs' = fs \cup {HEALTH_TEST_FILE}
            /\ health' = [health EXCEPT ![h].pc = "UNLINK", ![h].seen.touch = o]
       ELSE /\ UNCHANGED fs
            /\ health' = [health EXCEPT ![h].pc = "FFMPEG", ![h].seen.touch = o,
                                        ![h].status.directories_writable = FALSE]
    /\ UNCHANGED <<request, data, pc, retries, attempts, err, history, result, calls,
                   written, mtime, sweep, pure, clock>>

\* test_file.unlink(), inside the same try
ProbeUnlink(h) ==
    /\ health[h].pc = "UNLINK"
    /\ IF HEALTH_TEST_FILE \in fs
       THEN /\ fs' = fs \ {HEALTH_TEST_FILE}
            /\ health' = [health EXCEPT ![h].pc = "FFMPEG", ![h].seen.unlink = "ok"]
       ELSE /\ UNCHANGED fs
            /\ health' = [health EXCEPT ![h].pc = "FFMPEG",
                                        ![h].seen.unlink = "FileNotFoundError",
                                        ![h].status.directories_writable = FALSE]
    /\ UNCHANGED <<request, data, pc, retries, attempts, err, history, result, calls,
                   written, mtime, sweep, pure, clock>>

\* What except (subprocess.CalledProcessError, FileNotFoundError) catches
ProbeCaught == {"CalledProcessError", "FileNotFoundError"}

\* subprocess.run(['ffmpeg', '-version'], capture_output=True, check=True)
ProbeFfmpeg(h, outcome) ==
    /\ health[h].pc = "FFMPEG"
    /\ health' = [health EXCEPT
          ![h].seen.ffmpeg = outcome,
          ![h].status.ffmpeg_available = (outcome = "ok"),
          ![h].pc = IF outcome \in ProbeCaught \cup {"ok"} THEN "IMAGEMAGICK" ELSE "RAISED",
          ![h].exc = IF outcome \in ProbeCaught \cup {"ok"} THEN NoErr
                     ELSE Exc(outcome, "Permission denied", <<"ffmpeg">>, "health")]
    /\ UNCHANGED <<request, data, pc, retries, attempts, err, history, result, calls,
                   fs, written, mtime, sweep, pure, clock>>

\* subprocess.run(['convert', '-version'], capture_output=True, check=True)
\* and return status
ProbeImageMagick(h, outcome) ==
    /\ health[h].pc = "IMAGEMAGICK"
    /\ health' = [health EXCEPT
          ![h].seen.convert = outcome,
          ![h].status.imagemagick_available = (outcome = "ok"),
          ![h].pc = IF outcome \in ProbeCaught \cup {"ok"} THEN "RETURNED" ELSE "RAISED",
          ![h].exc = IF outcome \in ProbeCaught \cup {"ok"} THEN NoErr
                     ELSE Exc(outcome, "Permission denied", <<"convert">>, "health")]
    /\ UNCHANGED <<request, data, pc, retries, attempts, err, history, result, calls,
                   fs, written, mtime, sweep, pure, clock>>

ProbeStep(h) ==
    \/ ProbeStart(h)
    \/ \E outcome \in TouchOutcomes : ProbeTouch(h, outcome)
    \/ ProbeUnlink(h)
    \/ \E outcome \in ProbeOutcomes : ProbeFfmpeg(h, outcome)
    \/ \E outcome \in ProbeOutcomes : ProbeImageMagick(h, outcome)

\* One health probe runs; assets and the scratch directory may be missing.
HealthInit ==
    /\ fs \in SUBSET {TEMPLATE_PATH, FONT_PATH, Dir(TEMP_DIR)}
    /\ health = [h \in Probes |-> IF h = 1 THEN ProbeCall ELSE NoProbe]
    /\ request = [j \in Jobs |-> NoData]
    /\ pc = [j \in Jobs |-> "IDLE"]
    /\ data = [j \in Jobs |-> NoData]
    /\ retries = [j \in Jobs |-> 0]
    /\ attempts = [j \in Jobs |-> 0]
    /\ err = [j \in Jobs |-> NoErr]
    /\ history = [j \in Jobs |-> << >>]
    /\ result = [j \in Jobs |-> NoResult]
    /\ calls = [j \in Jobs |-> << >>]
    /\ written = [j \in Jobs |-> {}]
    /\ clock = 0
    /\ mtime = << >>
    /\ sweep = NoSweep
    /\ pure = NoCall

HealthNext == \E h \in Probes : ProbeStep(h)

HealthSpec == HealthInit /\ [][HealthNext]_vars

\* Two health probes run at the same time (the hourly beat and a manual
\* call, or two workers); assets and the scratch directory are present.
ProbeRacers == {1, 2}

ProbeRaceInit ==
    /\ fs = {TEMPLATE_PATH, FONT_PATH, Dir(TEMP_DIR)}
    /\ health = [h \in Probes |-> IF h \in ProbeRacers THEN ProbeCall ELSE NoProbe]
    /\ request = [j \in Jobs |-> NoData]
    /\ pc = [j \in Jobs |-> "IDLE"]
    /\ data = [j \in Jobs |-> NoData]
    /\ retries = [j \in Jobs |-> 0]
    /\ attempts = [j \in Jobs |-> 0]
    /\ err = [j \in Jobs |-> NoErr]
    /\ history = [j \in Jobs |-> << >>]
    /\ result = [j \in Jobs |-> NoResult]
    /\ calls = [j \in Jobs |-> << >>]
    /\ written = [j \in Jobs |-> {}]
    /\ clock = 0
    /\ mtime = << >>
    /\ sweep = NoSweep
    /\ pure = NoCall

ProbeRaceSpec == ProbeRaceInit /\ [][HealthNext]_vars

\* ---------------------------------------------- tasks.text_escape, called
MaxTextLen == 3

\* The characters text_escape is called on: the eight it replaces and one
\* it leaves alone
EscapeAlphabet == {"\\", ":", "'", "\"", "[", "]", ",", ";", "a"}

JohnsCertificate ==
    <<"J", "o", "h", "n", "'", "s", " ", "C", "e", "r", "t", "i", "f", "i", "c", "a", "t", "e">>

EscapeInputs ==
    UNION {[1..n -> EscapeAlphabet] : n \in 0..MaxTextLen} \cup {JohnsCertificate}

EscapeCall(text) == [pc |-> "CALLED", fn |-> "text_escape", arg |-> text, out |-> << >>]

CallTextEscape ==
    /\ pure.pc = "CALLED"
    /\ pure.fn = "text_escape"
    /\ pure' = [pure EXCEPT !.pc = "RETURNED", !.out = text_escape(pure.arg)]
    /\ UNCHANGED <<request, data, pc, retries, attempts, err, history, result, calls,
                   fs, written, mtime, sweep, health, clock>>

EscapeInit ==
    /\ \E text \in EscapeInputs : pure = EscapeCall(text)
    /\ request = [j \in Jobs |-> NoData]
    /\ pc = [j \in Jobs |-> "IDLE"]
    /\ data = [j \in Jobs |-> NoData]
    /\ retries = [j \in Jobs |-> 0]
    /\ attempts = [j \in Jobs |-> 0]
    /\ err = [j \in Jobs |-> NoErr]
    /\ history = [j \in Jobs |-> << >>]
    /\ result = [j \in Jobs |-> NoResult]
    /\ calls = [j \in Jobs |-> << >>]
    /\ fs = {}
    /\ written = [j \in Jobs |-> {}]
    /\ clock = 0
    /\ mtime = << >>
    /\ sweep = NoSweep
    /\ health = [h \in Probes |-> NoProbe]

EscapeNext == CallTextEscape

EscapeSpec == EscapeInit /\ [][EscapeNext]_vars

\* ------------------------------------- utils.validate_certificate_id, called
MaxIdLen == 5

\* Characters of the identifiers tried: a capital, a small letter, a digit,
\* the two allowed signs, a sign that is not allowed and a letter whose
\* upper() is two characters
IdAlphabet == {"A", "z", "7", "-", "_", "@", "U+00DF"}

\* The identifiers of test_validate_certificate_id
IdCert123456789 ==
    PyStr(<<"C", "E", "R", "T", "-", "1", "2", "3", "4", "5", "6", "7", "8", "9">>)
IdAbc == PyStr(<<"A", "B", "C">>)
IdCertAt123 == PyStr(<<"c", "e", "r", "t", "@", "1", "2", "3">>)

IdInputs ==
    {PyStr(chars) : chars \in UNION {[1..n -> IdAlphabet] : n \in 0..MaxIdLen}}
        \cup {PyNone, PyInt(0), PyInt(12345), IdCert123456789, IdAbc, IdCertAt123}

IdCall(v) ==
    [pc |-> "CALLED", fn |-> "validate_certificate_id", arg |-> v, out |-> FALSE,
     exc |-> NoErr]

\* if not certificate_id or len(certificate_id) < 5: return False; len() of
\* an int raises TypeError
CallValidateCertificateId ==
    /\ pure.pc = "CALLED"
    /\ pure.fn = "validate_certificate_id"
    /\ pure' = IF ~Truthy(pure.arg)
               THEN [pure EXCEPT !.pc = "RETURNED", !.out = FALSE]
               ELSE IF ~IsStr(pure.arg)
               THEN [pure EXCEPT !.pc = "RAISED",
                                 !.exc = Exc("TypeError", "object of type 'int' has no len()",
                                             << >>, "validate_certificate_id")]
               ELSE [pure EXCEPT !.pc = "RETURNED",
                                 !.out = validate_certificate_id(pure.arg.s)]
    /\ UNCHANGED <<request, data, pc, retries, attempts, err, history, result, calls,
                   fs, written, mtime, sweep, health, clock>>

IdInit ==
    /\ \E v \in IdInputs : pure = IdCall(v)
    /\ request = [j \in Jobs |-> NoData]
    /\ pc = [j \in Jobs |-> "IDLE"]
    /\ data = [j \in Jobs |-> NoData]
    /\ retries = [j \in Jobs |-> 0]
    /\ attempts = [j \in Jobs |-> 0]
    /\ err = [j \in Jobs |-> NoErr]
    /\ history = [j \in Jobs |-> << >>]
    /\ result = [j \in Jobs |-> NoResult]
    /\ calls = [j \in Jobs |-> << >>]
    /\ fs = {}
    /\ written = [j \in Jobs |-> {}]
    /\ clock = 0
    /\ mtime = << >>
    /\ sweep = NoSweep
    /\ health = [h \in Probes |-> NoProbe]

IdNext == CallValidateCertificateId

IdSpec == IdInit /\ [][IdNext]_vars

\* -------------------------------------------- utils.format_datetime, called
Date(year, month, day) == PyStr(year \o <<"-">> \o month \o <<"-">> \o day)

DateYears == {<<"2", "0", "2", "4">>, <<"2", "0", "2", "3">>, <<"0", "0", "0", "1">>}
DateMonths == {<<"0", "2">>, <<"1", "2">>, <<"1", "3">>}
DateDays == {<<"0", "1">>, <<"2", "9">>, <<"3", "1">>}

\* What issued_at holds: calendar dates that exist and that do not, with
\* and without a time, text that is no date, and a number
DateInputs ==
    {Date(y, m, d) : y \in DateYears, m \in DateMonths, d \in DateDays}
        \cup {IsoDate, IsoDateTime, BadDay, BadMonth, InvalidDate, Empty, PyInt(20240115)}

FormatCall(v) ==
    [pc |-> "CALLED", fn |-> "format_datetime", arg |-> v, out |-> PyNone, exc |-> NoErr]

CallFormatDatetime ==
    /\ pure.pc = "CALLED"
    /\ pure.fn = "format_datetime"
    /\ LET r == format_datetime(pure.arg) IN
       pure' = [pure EXCEPT !.pc = IF r.exc = NoErr THEN "RETURNED" ELSE "RAISED",
                            !.out = r.out,
                            !.exc = r.exc]
    /\ UNCHANGED <<request, data, pc, retries, attempts, err, history, result, calls,
                   fs, written, mtime, sweep, health, clock>>

\* A request with the issued_at is submitted, and format_datetime is called
\* on the same value directly.
DateInit ==
    /\ \E d \in DateInputs :
          /\ pure = FormatCall(d)
          /\ request = [j \in Jobs |-> IF j = 1
                                       THEN Request(TestUser, TestU, IdCert1, d, Testing)
                                       ELSE NoData]
    /\ pc = [j \in Jobs |-> IF j = 1 THEN "PENDING" ELSE "IDLE"]
    /\ data = [j \in Jobs |-> NoData]
    /\ retries = [j \in Jobs |-> 0]
    /\ attempts = [j \in Jobs |-> 0]
    /\ err = [j \in Jobs |-> NoErr]
    /\ history = [j \in Jobs |-> << >>]
    /\ result = [j \in Jobs |-> NoResult]
    /\ calls = [j \in Jobs |-> << >>]
    /\ fs = {TEMPLATE_PATH, FONT_PATH}
    /\ written = [j \in Jobs |-> {}]
    /\ clock = 0
    /\ mtime = << >>
    /\ sweep = NoSweep
    /\ health = [h \in Probes |-> NoProbe]

DateNext ==
    \/ CallFormatDatetime
    \/ \E j \in Jobs : JobStep(j)

DateSpec == DateInit /\ [][DateNext]_vars

\* ------------------------------------------------------- producer.main
MaxClock == 4
TicksPerSecond == 2

\* The clock starts at 2025-06-10 14:30:00 and advances in ticks
Seconds(t) == t \div TicksPerSecond
Microseconds(t) == ((t % TicksPerSecond) * 1000000) \div TicksPerSecond

TwoDigits(k) == <<Digits[(k \div 10) + 1], Digits[(k % 10) + 1]>>
SixDigits(k) == TwoDigits(k \div 10000) \o TwoDigits((k \div 100) % 100) \o TwoDigits(k % 100)

\* datetime.now().strftime('%Y%m%d-%H%M%S'): the reading cut to whole seconds
StampSeconds(t) ==
    <<"2", "0", "2", "5", "0", "6", "1", "0", "-", "1", "4", "3", "0">> \o TwoDigits(Seconds(t))

\* f"CSI-CERT-{datetime.now().strftime('%Y%m%d-%H%M%S')}"
MainCertificateId(t) == PyStr(<<"C", "S", "I", "-", "C", "E", "R", "T", "-">> \o StampSeconds(t))

\* datetime.now().isoformat()
isoformat(t) ==
    PyStr(<<"2", "0", "2", "5", "-", "0", "6", "-", "1", "0", "T", "1", "4", ":", "3", "0", ":">> \o TwoDigits(Seconds(t))
          \o <<".">> \o SixDigits(Microseconds(t)))

DevaGarwalla == PyStr(<<"D", "e", "v", "a", " ", "G", "a", "r", "w", "a", "l", "l", "a">>)
ComputerSociety ==
    PyStr(<<"C", "o", "m", "p", "u", "t", "e", "r", " ", "S", "o", "c", "i", "e", "t", "y", " ", "o", "f", " ", "I", "n", "d", "i", "a">>)
AdvancedPython ==
    PyStr(<<"A", "d", "v", "a", "n", "c", "e", "d", " ", "P", "y", "t", "h", "o", "n", " ", "D", "e", "v", "e",
          "l", "o", "p", "m", "e", "n", "t", " ", "&", " ", "A", "u", "t", "o", "m", "a", "t", "i", "o", "n">>)

\* cert_data = {...}, made at the clock reading t
CertData(t) ==
    Request(DevaGarwalla, ComputerSociety, MainCertificateId(t), isoformat(t), AdvancedPython)

Tick ==
    /\ clock < MaxClock
    /\ clock' = clock + 1
    /\ UNCHANGED <<request, data, pc, retries, attempts, err, history, result, calls,
                   fs, written, mtime, sweep, health, pure>>

\* A producer process starts main() and builds cert_data
BuildCertData(j) ==
    /\ pc[j] = "IDLE"
    /\ request' = [request EXCEPT ![j] = CertData(clock)]
    /\ pc' = [pc EXCEPT ![j] = "BUILT"]
    /\ UNCHANGED <<data, retries, attempts, err, history, result, calls, fs>>
    /\ UNCHANGED <<written, otherVars>>

\* result = generate_certificate.delay(cert_data)
Delay(j) ==
    /\ pc[j] = "BUILT"
    /\ pc' = [pc EXCEPT ![j] = "PENDING"]
    /\ UNCHANGED <<request, data, retries, attempts, err, history, result, calls, fs>>
    /\ UNCHANGED <<written, otherVars>>

ProducerInit ==
    /\ request = [j \in Jobs |-> NoData]
    /\ pc = [j \in Jobs |-> "IDLE"]
    /\ data = [j \in Jobs |-> NoData]
    /\ retries = [j \in Jobs |-> 0]
    /\ attempts = [j \in Jobs |-> 0]
    /\ err = [j \in Jobs |-> NoErr]
    /\ history = [j \in Jobs |-> << >>]
    /\ result = [j \in Jobs |-> NoResult]
    /\ calls = [j \in Jobs |-> << >>]
    /\ fs = {TEMPLATE_PATH, FONT_PATH}
    /\ written = [j \in Jobs |-> {}]
    /\ clock = 0
    /\ mtime = << >>
    /\ sweep = NoSweep
    /\ health = [h \in Probes |-> NoProbe]
    /\ pure = NoCall

ProducerNext ==
    \/ Tick
    \/ \E j \in Jobs : BuildCertData(j)
    \/ \E j \in Jobs : Delay(j)

ProducerSpec == ProducerInit /\ [][ProducerNext]_vars

\* The Validator alone: validate_data is called once on a request.
CallValidateData(j) ==
    /\ pc[j] = "CALL"
    /\ LET r == validate_data(request[j]) IN
       /\ request' = [request EXCEPT ![j] = r.arg]
       /\ err' = [err EXCEPT ![j] = r.exc]
       /\ IF r.exc = NoErr
          THEN /\ pc' = [pc EXCEPT ![j] = "RETURNED"]
               /\ data' = [data EXCEPT ![j] = r.ret]
          ELSE /\ pc' = [pc EXCEPT ![j] = "RAISED"]
               /\ UNCHANGED data
    /\ UNCHANGED <<retries, attempts, history, result, calls, fs>>
    /\ UNCHANGED <<written, otherVars>>

ValidatorInit ==
    /\ \E req \in ValidatorRequests :
          request = [j \in Jobs |-> IF j = 1 THEN req ELSE NoData]
    /\ pc = [j \in Jobs |-> IF j = 1 THEN "CALL" ELSE "IDLE"]
    /\ data = [j \in Jobs |-> NoData]
    /\ retries = [j \in Jobs |-> 0]
    /\ attempts = [j \in Jobs |-> 0]
    /\ err = [j \in Jobs |-> NoErr]
    /\ history = [j \in Jobs |-> << >>]
    /\ result = [j \in Jobs |-> NoResult]
    /\ calls = [j \in Jobs |-> << >>]
    /\ fs \in SUBSET {TEMPLATE_PATH, FONT_PATH}
    /\ written = [j \in Jobs |-> {}]
    /\ clock = 0
    /\ mtime = << >>
    /\ sweep = NoSweep
    /\ health = [h \in Probes |-> NoProbe]
    /\ pure = NoCall

ValidatorNext == \E j \in Jobs : CallValidateData(j)

ValidatorSpec == ValidatorInit /\ [][ValidatorNext]_vars


\* ================================================================== claims
HasId(j) == "certificate_id" \in DOMAIN request[j]
Submitted(j) == pc[j] # "IDLE"
TempFiles(j) == {QrPath(request[j]["certificate_id"]),
                 TempImgPath(request[j]["certificate_id"])}
Transient == {"render", "convert"}

\* C1: a job whose request fails validation is never scheduled for a retry
\* and is executed exactly once: it goes from VALIDATING straight to FAILED.
C1_ValidationFailureNotRetried ==
    \A j \in Jobs :
        err[j].stage = "validate" => /\ pc[j] # "RETRYING"
                                     /\ attempts[j] = 1

\* C2: after every exit of an attempt (retry scheduled, DONE, FAILED) neither
\* the temporary QR file nor the intermediate raster of the job exists.
C2_NoTempFilesAfterExit ==
    \A j \in Jobs :
        (pc[j] \in {"RETRYING", "DONE", "FAILED"} /\ HasId(j))
            => TempFiles(j) \cap fs = {}

\* C3: every submitted job eventually reaches DONE or FAILED.
C3_EveryJobTerminates ==
    \A j \in Jobs : (pc[j] = "PENDING") ~> (pc[j] \in Terminal)

C3_Witness ==
    \E j \in Jobs : /\ pc[j] \in Terminal
                    /\ attempts[j] = MaxRetries + 1
                    /\ Range(history[j]) \cap {"render"} # {}
                    /\ Range(history[j]) \cap {"convert"} # {}

\* C4: the retry count starts at 0, grows by exactly one per retry and never
\* exceeds max_retries; a failure below max_retries schedules a retry, a
\* failure at max_retries ends in FAILED; at most max_retries + 1 attempts
\* are executed; DONE and FAILED are never left.
C4_RetryCountBounded ==
    /\ \A j \in Jobs : retries[j] = 0
    /\ [][\A j \in Jobs :
            /\ retries[j] \in 0..MaxRetries
            /\ retries'[j] \in 0..MaxRetries
            /\ attempts'[j] <= MaxRetries + 1
            /\ retries'[j] \in {retries[j], retries[j] + 1}
            /\ (pc'[j] = "RETRYING" /\ pc[j] # "RETRYING")
                   <=> retries'[j] = retries[j] + 1
            /\ history'[j] # history[j] =>
                   IF retries[j] < MaxRetries
                   THEN pc'[j] = "RETRYING" /\ retries'[j] = retries[j] + 1
                   ELSE pc'[j] = "FAILED" /\ retries'[j] = retries[j]
            /\ pc[j] \in Terminal => pc'[j] = pc[j]
         ]_vars

C4_Witness ==
    \E j \in Jobs : /\ pc[j] = "FAILED"
                    /\ retries[j] = MaxRetries
                    /\ attempts[j] = MaxRetries + 1

\* C5: a job whose first max_retries attempts each fail transiently and
\* whose next attempt succeeds is DONE, has returned the artifact path, and
\* has left neither the temporary QR file nor the intermediate image.
FailedTransientlyThenDone(j) ==
    /\ pc[j] = "DONE"
    /\ Len(history[j]) = MaxRetries
    /\ Range(history[j]) \subseteq Transient

C5_DoneAfterMaxRetriesIsClean ==
    \A j \in Jobs :
        FailedTransientlyThenDone(j) =>
            /\ result[j] = Returned(PdfOutputPath(request[j]["certificate_id"]))
            /\ TempFiles(j) \cap fs = {}

C5_Witness ==
    \E j \in Jobs : /\ FailedTransientlyThenDone(j)
                    /\ attempts[j] = MaxRetries + 1
                    /\ PdfOutputPath(request[j]["certificate_id"]) \in fs

\* C6: the terminal error of a job whose retries are exhausted carries the
\* message of the last underlying failure and, as its attempt count, the
\* number of attempts executed for the job.
C6_TerminalErrorCountsAttempts ==
    \A j \in Jobs :
        pc[j] = "FAILED" =>
            /\ result[j].kind = "error"
            /\ result[j].exc.cause = StrOf(err[j])
            /\ result[j].exc.count = attempts[j]

\* C7: a request in which one or more required fields is absent or empty is
\* rejected with one ValueError whose message names every such field.
AbsentOrEmpty(req, key) ==
    key \notin DOMAIN req \/ req[key] = Empty \/ req[key] = PyNone

Called(j) == pc[j] \in {"RETURNED", "RAISED"}

C7_EveryMissingFieldNamed ==
    \A j \in Jobs :
        (Called(j) /\ \E key \in Range(REQUIRED_KEYS) : AbsentOrEmpty(request[j], key))
            => /\ pc[j] = "RAISED"
               /\ err[j].type = "ValueError"
               /\ err[j].text = "Missing or empty required fields"
               /\ \A key \in Range(REQUIRED_KEYS) :
                      AbsentOrEmpty(request[j], key) => key \in Range(err[j].names)

C7_Witness ==
    \E j \in Jobs :
        /\ pc[j] = "RAISED"
        /\ Cardinality({key \in Range(REQUIRED_KEYS) : AbsentOrEmpty(request[j], key)}) >= 3
        /\ "user_name" \in DOMAIN request[j] /\ request[j]["user_name"] = TestUser

\* C8: a request with all required fields that violates a type or length
\* constraint, or whose issued_at is not a string or does not parse, is
\* rejected with a ValueError naming the offending field; no other
\* exception type escapes the Validator.
AllPresent(req) ==
    \A key \in Range(REQUIRED_KEYS) : key \in DOMAIN req /\ Truthy(req[key])

Offending(req) ==
    {key \in {"user_name", "college", "topic", "issued_at"} :
        CASE key = "user_name" -> ~IsStr(req[key]) \/ Len(req[key].s) > MaxUserNameLen
          [] key = "college" -> ~IsStr(req[key]) \/ Len(req[key].s) > MaxCollegeLen
          [] key = "topic" -> ~IsStr(req[key]) \/ Len(req[key].s) > MaxTopicLen
          [] OTHER -> fromisoformat(req[key]) # "ok"}

C8_OnlyValueErrorEscapes ==
    \A j \in Jobs :
        (Called(j) /\ AllPresent(request[j]) /\ Offending(request[j]) # {})
            => /\ pc[j] = "RAISED"
               /\ err[j].type = "ValueError"
               /\ Range(err[j].names) \cap Offending(request[j]) # {}

\* C9: every request the Validator accepts has a certificate_id that
\* satisfies the identifier-format rule (at least 5 characters, each an
\* alphanumeric, a hyphen or an underscore).
IdentifierFormatRule(v) == IsStr(v) /\ validate_certificate_id(v.s)

C9_AcceptedIdWellFormed ==
    \A j \in Jobs :
        pc[j] = "RETURNED" => IdentifierFormatRule(request[j]["certificate_id"])

\* C10: validate_data leaves the request unchanged, returns a value equal to
\* the request on success, and creates no file or directory and starts no
\* process, on success and on failure.
C10_ValidateHasNoSideEffects ==
    [][\A j \in Jobs :
          (pc[j] = "CALL" /\ pc'[j] # "CALL") =>
              /\ request'[j] = request[j]
              /\ fs' = fs
              /\ calls' = calls
              /\ pc'[j] = "RETURNED" => data'[j] = request[j]
      ]_vars

C10_Witness ==
    \E j \in Jobs : /\ pc[j] = "RETURNED"
                    /\ request[j]["certificate_id"] = IdLower
                    /\ data[j] = request[j]


\* C11: in the Format Converter a failing strategy (non-zero exit or tool
\* not found) moves on to the next one, and when every strategy has failed
\* the conversion ends with CertificateGenerationError and no other type.
IsConversion(c) == c.out.dir = CERTIFICATES_DIR
ConversionCalls(j) == SelectSeq(calls[j], IsConversion)

C11_ConversionFailsWithGenerationError ==
    \A j \in Jobs :
        (err[j].stage = "convert" /\ pc[j] \in {"RETRYING", "FAILED"}) =>
            /\ Len(ConversionCalls(j)) = Len(ConverterOrder)
            /\ \A i \in DOMAIN ConversionCalls(j) : ConversionCalls(j)[i].outcome # "ok"
            /\ err[j].type = "CertificateGenerationError"

\* C12: the strategies are tried in a fixed order and the first success
\* wins: a strategy runs only if every earlier one failed in this attempt,
\* and none runs after a success.
C12_FirstSuccessWins ==
    \A j \in Jobs :
        LET conv == ConversionCalls(j) IN
        /\ Len(conv) <= Len(ConverterOrder)
        /\ \A i \in DOMAIN conv :
              /\ conv[i].prog = ConverterOrder[i]
              /\ \A k \in 1..(i - 1) : conv[k].outcome # "ok"

C12_Witness ==
    \E j \in Jobs :
        LET conv == ConversionCalls(j) IN
        /\ Len(conv) = 2
        /\ conv[1].outcome = "FileNotFoundError"
        /\ conv[2].outcome = "ok"
        /\ pc[j] = "DONE"

\* C18: any failure of the rendering engine, a non-zero exit or a missing
\* executable, ends the rendering step with a CertificateGenerationError
\* carrying the engine's output, and the converter is not run in that attempt.
C18_RenderFailureIsGenerationError ==
    \A j \in Jobs :
        err[j].stage = "render" =>
            /\ err[j].type = "CertificateGenerationError"
            /\ err[j].text = "Image generation failed: {e.stderr}"
            /\ pc[j] \in {"RETRYING", "FAILED"} => ConversionCalls(j) = << >>

\* C19: a missing template, font or rendering-engine executable is not
\* retried: the job is FAILED without a retry and the error names the asset.
MissingResource(e) ==
    e.type = "FileNotFoundError" /\ e.stage \in {"prepare", "render"}

C19_MissingResourceNotRetried ==
    \A j \in Jobs :
        /\ MissingResource(err[j]) => /\ pc[j] # "RETRYING"
                                      /\ attempts[j] = 1
                                      /\ err[j].names # << >>
        /\ FONT_PATH \notin fs => pc[j] \notin {"QR", "RENDERING", "CONVERTING",
                                               "CONVERTING_FALLBACK", "CLEANUP", "DONE"}


\* C13: two jobs with distinct certificate IDs that run concurrently never
\* write the same path (temporary QR file, intermediate raster, final PDF).
InFlight(j) == pc[j] \notin {"IDLE", "PENDING", "DONE", "FAILED"}
SameId(j, k) == request[j]["certificate_id"] = request[k]["certificate_id"]

C14_SameIdCleanupDeletesOthersImage ==
    [][\A j \in RaceJobs : \A k \in RaceJobs \ {j} :
          (SameId(j, k) /\ pc[j] = "CLEANUP" /\ pc'[j] = "DONE" /\ pc[k] = "CONVERTING")
              => /\ TempImgPath(data[k]["certificate_id"]) \in written[k]
                 /\ TempImgPath(data[k]["certificate_id"]) \in written[j]
                 /\ TempImgPath(data[k]["certificate_id"]) \notin fs'
                 /\ pc'[k] = "CONVERTING"
      ]_vars

C14_Witness ==
    \E j \in RaceJobs : \E k \in RaceJobs \ {j} :
        /\ SameId(j, k)
        /\ pc[j] = "DONE" /\ attempts[j] = 1
        /\ pc[k] = "CONVERTING" /\ attempts[k] = 1
        /\ written[j] \cap written[k] # {}
        /\ TempImgPath(data[k]["certificate_id"]) \in written[k]
        /\ TempImgPath(data[k]["certificate_id"]) \notin fs


\* C15: a sweep that returns has deleted from the artifact store exactly the
\* files older than max_age_days and no younger one, and files_removed is
\* the number of files it deleted there; with artifacts aged 10 and 40 days
\* and a 30-day cutoff only the 40-day one goes and files_removed = 1.
OlderThan(p, days) == Now - mtime[p] > days
ExpiredArtifacts == {p \in sweep.listed : OlderThan(p, sweep.days_old)}

C16_SweepToleratesFileErrors ==
    sweep.pc \in {"RETURNED", "RAISED"} =>
        /\ sweep.pc = "RETURNED"
        /\ ExpiredArtifacts \cap fs = {}


\* C17: health_check never raises: whatever assets are missing, whether or
\* not the scratch directory is writable and however the two probes fail,
\* it returns a status in which every failed check is a false field.
C17_HealthCheckNeverRaises ==
    \A h \in Probes :
        /\ health[h].pc # "RAISED"
        /\ health[h].pc = "RETURNED" =>
              /\ health[h].status.template_exists = (TEMPLATE_PATH \in fs)
              /\ health[h].status.font_exists = (FONT_PATH \in fs)
              /\ health[h].seen.touch # "ok" => ~health[h].status.directories_writable
              /\ health[h].seen.ffmpeg # "ok" => ~health[h].status.ffmpeg_available
              /\ health[h].seen.convert # "ok" => ~health[h].status.imagemagick_available


\* The characters the filter syntax gives a meaning to
SpecialChars == {"\\", ":", "'", "\"", "[", "]", ",", ";"}

\* One pass over the input: a backslash before each special character
RECURSIVE EscapedOnce(_)
EscapedOnce(s) ==
    IF s = << >> THEN << >>
    ELSE (IF Head(s) \in SpecialChars THEN <<"\\", Head(s)>> ELSE <<Head(s)>>)
         \o EscapedOnce(Tail(s))

SpecialCount(s) == Cardinality({i \in 1..Len(s) : s[i] \in SpecialChars})

\* C20: text_escape puts exactly one backslash before each backslash, colon,
\* quote, bracket, comma and semicolon of its input and changes nothing
\* else; added backslashes are not escaped again, so the result is longer
\* than the input by the number of special characters.
C20_EscapeAddsOneBackslashEach ==
    (pure.pc = "RETURNED" /\ pure.fn = "text_escape") =>
        /\ pure.out = EscapedOnce(pure.arg)
        /\ Len(pure.out) = Len(pure.arg) + SpecialCount(pure.arg)

C20_Witness ==
    /\ pure.pc = "RETURNED"
    /\ pure.fn = "text_escape"
    /\ pure.arg = JohnsCertificate
    /\ pure.out = <<"J", "o", "h", "n", "\\", "'", "s", " ", "C", "e", "r", "t", "i",
                    "f", "i", "c", "a", "t", "e">>


\* Letters and digits, hyphen and underscore
IdentifierChars == Range(UpperCase) \cup Range(LowerCase) \cup Range(Digits) \cup {"-", "_"}

WellFormedIdentifier(v) ==
    /\ IsStr(v)
    /\ Len(v.s) >= 5
    /\ \A i \in DOMAIN v.s : v.s[i] \in IdentifierChars

\* C21: validate_certificate_id returns True exactly for identifiers of at
\* least 5 characters, each a letter, a digit, a hyphen or an underscore,
\* and returns False for every other input (the empty string, None, a short
\* identifier, an identifier with another character, ...).
C21_IdValidatorDecidesFormat ==
    (pure.pc \in {"RETURNED", "RAISED"} /\ pure.fn = "validate_certificate_id") =>
        /\ pure.pc = "RETURNED"
        /\ pure.out = WellFormedIdentifier(pure.arg)


\* The render calls of job j's current attempt
RenderCalls(j) ==
    SelectSeq(calls[j], LAMBDA c : c.prog = "ffmpeg" /\ c.out = TempImgPath(data[j]["certificate_id"]))

Jun10 ==
    <<"1", "0", "-", "J", "u", "n", "-", "2", "0", "2", "5", " ", "1", "4", ":", "3", "0">>

\* C22: format_datetime never raises on a string: an ISO timestamp is
\* formatted (dd-Mon-YYYY HH:MM), any other string gives "Invalid Date";
\* and for a request validate_data accepted, the date text of the render
\* command is never the fallback and no attempt fails while formatting.
C22_FormatNeverRaisesOnString ==
    /\ (pure.pc \in {"RETURNED", "RAISED"} /\ IsStr(pure.arg)) =>
          /\ pure.pc = "RETURNED"
          /\ IsStr(pure.out)
          /\ IF fromisoformat(pure.arg) = "ok"
             THEN /\ pure.out.s # FallbackDate
                  /\ Len(pure.out.s) >= 13
                  /\ pure.out.s[3] = "-" /\ pure.out.s[7] = "-"
                  /\ pure.out.s[Len(pure.out.s) - 2] = ":"
             ELSE pure.out.s = FallbackDate
    /\ \A j \in Jobs :
          /\ "format" \notin Range(history[j])
          /\ \A c \in Range(RenderCalls(j)) :
                /\ c.texts.date # FallbackDate
                /\ c.texts.date = text_escape(strftime(request[j]["issued_at"].s))

C22_Witness ==
    /\ pure.pc = "RETURNED"
    /\ pure.arg = IsoDateTime
    /\ pure.out = PyStr(Jun10)
    /\ pc[1] = "DONE"
    /\ request[1]["issued_at"] = IsoDateTime


\* The three strategies of the converter policy: the primary engine, its
\* legacy variant and the alternate engine
ThreeStrategies == <<"magick", "convert", "ffmpeg">>

\* C23: the Format Converter tries three strategies in this order: the
\* primary engine, the legacy variant of the same engine, then the alternate
\* engine, which runs only after both variants of the primary engine failed.
C23_ThreeStrategiesInOrder ==
    \A j \in Jobs :
        LET conv == ConversionCalls(j) IN
        \A i \in DOMAIN conv :
            /\ i <= Len(ThreeStrategies)
            /\ conv[i].prog = ThreeStrategies[i]
            /\ conv[i].prog = "ffmpeg" =>
                  /\ i = 3
                  /\ conv[1].outcome # "ok" /\ conv[2].outcome # "ok"

\* The age (in days) after which a temporary file is stale: max_age_hours = 24
TempMaxAgeDays == 1

\* C24: the sweep purges the temporary store with its own, shorter age
\* threshold: a temporary file older than that threshold and younger than
\* max_age_days is deleted by the sweep.
C24_TempStoreHasOwnThreshold ==
    sweep.pc = "RETURNED" =>
        \A p \in StoredTemps \cap DOMAIN mtime :
            (OlderThan(p, TempMaxAgeDays) /\ ~OlderThan(p, sweep.days_old)) => p \notin fs


\* Positions of an attempt whose validation has not yet succeeded
BeforeValidated == {"PENDING", "RETRYING", "VALIDATING"}

RenderedOk(cs) == \E i \in DOMAIN cs : ~IsConversion(cs[i]) /\ cs[i].outcome = "ok"

\* C25: within every attempt the stages run in the order Validator,
\* Renderer, Format Converter: a step taken before the attempt's validation
\* has succeeded creates no directory or file and starts no process, and a
\* conversion command is started only after the rendering command of the
\* same attempt has succeeded.
C25_StagesInOrder ==
    [][\A j \in Jobs :
          /\ (pc[j] \in BeforeValidated /\ pc'[j] # pc[j]) =>
                /\ fs' = fs
                /\ written'[j] = written[j]
                /\ calls'[j] = << >>
          /\ (Len(calls'[j]) > Len(calls[j]) /\ IsConversion(calls'[j][Len(calls'[j])])) =>
                /\ pc[j] \in {"CONVERTING", "CONVERTING_FALLBACK"}
                /\ RenderedOk(calls[j])
          /\ (Len(calls'[j]) > Len(calls[j]) /\ ~IsConversion(calls'[j][Len(calls'[j])])) =>
                /\ pc[j] = "RENDERING"
                /\ calls[j] = << >>]_vars

\* A second attempt that went through the three stages after a failed first one
C25_Witness ==
    \E j \in Jobs :
        /\ attempts[j] = 2
        /\ history[j] = <<"validate">> \/ history[j] = <<"convert">>
        /\ pc[j] = "CLEANUP"
        /\ Len(calls[j]) = 3
        /\ ~IsConversion(calls[j][1]) /\ calls[j][1].outcome = "ok"
        /\ IsConversion(calls[j][2]) /\ calls[j][2].outcome # "ok"
        /\ IsConversion(calls[j][3]) /\ calls[j][3].outcome = "ok"


\* The rendering-engine calls of job j's attempt
RendererCalls(j) == SelectSeq(calls[j], LAMBDA c : ~IsConversion(c))

\* C26: a job that succeeds on its first attempt has run the rendering
\* engine exactly once and the Format Converter exactly once (one strategy
\* succeeded, and nothing ran after it), is DONE with the path
\* <certificates store>/<certificate_id>.pdf as its result, and neither the
\* temporary QR file nor the intermediate image exists afterwards.
C26_FirstAttemptSuccess ==
    \A j \in Jobs :
        (pc[j] = "DONE" /\ attempts[j] = 1) =>
            LET id == Format(request[j]["certificate_id"])
                conv == ConversionCalls(j)
            IN  /\ Len(RendererCalls(j)) = 1
                /\ RendererCalls(j)[1].outcome = "ok"
                /\ Len(conv) >= 1
                /\ conv[Len(conv)].outcome = "ok"
                /\ \A i \in 1..(Len(conv) - 1) : conv[i].outcome # "ok"
                /\ result[j].kind = "path"
                /\ result[j].path = File(CERTIFICATES_DIR, id \o <<".pdf">>)
                /\ result[j].path \in fs
                /\ File(QR_OUTPUT_DIR, id \o <<"_qr.png">>) \notin fs
                /\ File(TEMP_DIR, id \o <<"_temp.jpg">>) \notin fs

C26_Witness ==
    /\ pc[1] = "DONE"
    /\ attempts[1] = 1
    /\ request[1]["certificate_id"] = IdTest0001
    /\ Len(calls[1]) = 2
    /\ calls[1][1].prog = "ffmpeg" /\ calls[1][1].outcome = "ok"
    /\ calls[1][2].prog = "convert" /\ calls[1][2].outcome = "ok"
    /\ result[1].path = File(CERTIFICATES_DIR, <<"T", "E", "S", "T", "-", "0", "0", "0", "1", ".pdf">>)


\* C27: in every attempt that reaches RENDERING the QR image generated for
\* the job's certificate ID is an input of the one rendering-engine call,
\* together with the template image, the font and the text overlays.
C27_QrIsRenderInput ==
    \A j \in Jobs :
        /\ Len(RendererCalls(j)) <= 1
        /\ \A c \in Range(RendererCalls(j)) :
              /\ TEMPLATE_PATH \in c.inputs
              /\ FONT_PATH \in c.inputs
              /\ c.texts.cid = text_escape(Format(data[j]["certificate_id"]))
              /\ QrPath(data[j]["certificate_id"]) \in c.inputs


\* The jobs whose request a producer has built
Produced == {j \in Jobs : pc[j] \in {"BUILT", "PENDING"}}

\* C28: the certificate identifiers generated for submissions are unique
\* under concurrent submission: two identifiers the producers generate are
\* different, also when generated at the same clock reading or by two
\* producers at once.
C28_GeneratedIdsUnique ==
    \A j, k \in Produced :
        j # k => request[j]["certificate_id"] # request[k]["certificate_id"]


\* Probes that are past the directory check
PastDirectoryCheck == {"FFMPEG", "IMAGEMAGICK", "RETURNED", "RAISED"}

\* C29: a health probe that runs while the scratch store is writable (its
\* test write succeeded) reports directories_writable = true in every
\* interleaving, also when another probe creates and deletes the same
\* health_check.tmp at the same time.
C29_WritableStoreReportedWritable ==
    \A h \in Probes :
        (health[h].pc \in PastDirectoryCheck /\ health[h].seen.touch = "ok") =>
            health[h].status.directories_writable

====
